---- MODULE Spec2Model ----
(***************************************************************************)
(* Model of create_rtp_pcap.py: the generator of pcap/g711a.pcap, a PCAP   *)
(* capture of 50 RTP/UDP/IPv4/Ethernet frames carrying a G.711A-like tone. *)
(* Byte strings are sequences of integers in 0..255, struct.pack is        *)
(* modelled field by field with its byte order, and the output file is the *)
(* byte sequence the writes produce.                                       *)
(***************************************************************************)
EXTENDS Integers, Sequences, FiniteSets, TLC

\* writes: the lengths of the successful f.write calls of the current run
VARIABLES pc, fileOpen, file, writes, base_timestamp, rtp_timestamp, seq_num,
          exc, out, openCount, closeCount, closedWrite, verifyResult,
          runs, prevFile

vars == <<pc, fileOpen, file, writes, base_timestamp, rtp_timestamp, seq_num,
          exc, out, openCount, closeCount, closedWrite, verifyResult,
          runs, prevFile>>

(* ---------------------------- bounds ----------------------------------- *)

\* number of distinct wall-clock readings int(time.time()) may return
NumBases == 3

\* number of times main() is run one after the other
MaxRuns == 2

\* the wall-clock readings: whole seconds since the epoch
BaseTimes == {1793945000 + 7 * i : i \in 0..(NumBases - 1)}

(* --------------------------- struct.pack ------------------------------- *)

\* format code 'B': one unsigned byte
PackB(x) == <<x>>

\* format code 'H' under '!': unsigned 16 bit, network byte order
PackH_BE(x) == <<(x \div 256) % 256, x % 256>>

\* format code 'H' under '<': unsigned 16 bit, little endian
PackH_LE(x) == <<x % 256, (x \div 256) % 256>>

\* format code 'L' under '!': unsigned 32 bit, network byte order
PackL_BE(x) ==
    <<(x \div 16777216) % 256, (x \div 65536) % 256, (x \div 256) % 256, x % 256>>

\* format code 'L' under '<': unsigned 32 bit, little endian
PackL_LE(x) ==
    <<x % 256, (x \div 256) % 256, (x \div 65536) % 256, (x \div 16777216) % 256>>

\* struct.pack raises struct.error for a value outside the field's range
FitsB(x) == x >= 0 /\ x <= 255
FitsH(x) == x >= 0 /\ x <= 65535
\* every integer of the model is below 2^31, so only the sign can be wrong
FitsL(x) == x >= 0

(* ---------------------------- builders --------------------------------- *)

\* 0xa1b2c3d4 as two 16 bit halves (the value exceeds the model's integers)
MAGIC_HI == 41394
MAGIC_LO == 50132

create_pcap_header ==
    PackH_LE(MAGIC_LO) \o PackH_LE(MAGIC_HI)   \* '<L' magic number
    \o PackH_LE(2)                             \* version major
    \o PackH_LE(4)                             \* version minor
    \o PackL_LE(0)                             \* thiszone
    \o PackL_LE(0)                             \* sigfigs
    \o PackL_LE(65535)                         \* snaplen
    \o PackL_LE(1)                             \* network (Ethernet)

create_ethernet_header ==
    <<0, 1, 2, 3, 4, 5>> \o <<0, 10, 11, 12, 13, 14>> \o <<8, 0>>

\* variant: the 12 bytes of the RTP header left out of the total length
ip_total_length_mut(payload_length) == 20 + 8 + payload_length

ip_total_length(payload_length) == 20 + 8 + 12 + payload_length

create_ip_header(payload_length) ==
    PackB(69) \o PackB(0)
    \o PackH_BE(ip_total_length(payload_length))
    \o PackH_BE(4660)                          \* identification 0x1234
    \o PackH_BE(0)
    \o PackB(64) \o PackB(17)
    \o PackH_BE(0)
    \o <<127, 0, 0, 1>> \o <<127, 0, 0, 1>>

udp_length(payload_length) == 8 + 12 + payload_length

create_udp_header(payload_length) ==
    PackH_BE(12345) \o PackH_BE(6000)
    \o PackH_BE(udp_length(payload_length))
    \o PackH_BE(0)

\* default of the ssrc parameter, 0x12345678
DEFAULT_SSRC == 305419896

create_rtp_header(seq, timestamp, ssrc) ==
    PackB(128) \o PackB(8) \o PackH_BE(seq) \o PackL_BE(timestamp) \o PackL_BE(ssrc)

\* int(8000 * duration_ms / 1000)
samples_per_packet(duration_ms) == (8000 * duration_ms) \div 1000

\* int(127 * (1 + 0.8 * ((i % 18) - 9) / 9)): the exact value is
\* 127 * (45 + 4 * ((i % 18) - 9)) / 45, positive, and never within 1/45 of
\* an integer unless it is one, so the truncation is the integer quotient
sample_at(i) == (127 * (45 + 4 * ((i % 18) - 9))) \div 45

Max2(a, b) == IF a >= b THEN a ELSE b
Min2(a, b) == IF a <= b THEN a ELSE b

a_law_sample(i) == Max2(0, Min2(255, sample_at(i)))

generate_g711a_audio(duration_ms) ==
    [j \in 1..samples_per_packet(duration_ms) |-> a_law_sample(j - 1)]

\* variant: the captured length counts the record header too
create_pcap_record_mut(packet_data, timestamp_sec, timestamp_usec) ==
    PackL_LE(timestamp_sec) \o PackL_LE(timestamp_usec)
    \o PackL_LE(Len(packet_data) + 16) \o PackL_LE(Len(packet_data))
    \o packet_data

create_pcap_record(packet_data, timestamp_sec, timestamp_usec) ==
    PackL_LE(timestamp_sec) \o PackL_LE(timestamp_usec)
    \o PackL_LE(Len(packet_data)) \o PackL_LE(Len(packet_data))
    \o packet_data

(* ------------------------------ main ----------------------------------- *)

\* variant: the loop stops one packet short
NumPackets_mut == 50 - 1

\* range(50)
NumPackets == 50

\* the duration passed to generate_g711a_audio
PacketMs == 20

\* seq_num + 1000
FirstSeq == 1000

\* variant: the sequence numbers start at 1 instead of 1000
build_packet_mut(seq, rtp_ts) ==
    LET audio_payload == generate_g711a_audio(PacketMs)
    IN  create_ethernet_header
        \o create_ip_header(Len(audio_payload))
        \o create_udp_header(Len(audio_payload))
        \o create_rtp_header(seq + 1, rtp_ts, DEFAULT_SSRC)
        \o audio_payload

\* lines 106-115: the frame of iteration seq
build_packet(seq, rtp_ts) ==
    LET audio_payload == generate_g711a_audio(PacketMs)
    IN  create_ethernet_header
        \o create_ip_header(Len(audio_payload))
        \o create_udp_header(Len(audio_payload))
        \o create_rtp_header(seq + FirstSeq, rtp_ts, DEFAULT_SSRC)
        \o audio_payload

\* struct.pack accepts every field of the iteration's frame and record
pack_ok(seq, rtp_ts, base) ==
    LET n == samples_per_packet(PacketMs)
    IN  /\ FitsH(ip_total_length(n)) /\ FitsH(udp_length(n))
        /\ FitsH(seq + FirstSeq) /\ FitsL(rtp_ts) /\ FitsL(base)
        /\ \A j \in 0..(n - 1) : FitsB(a_law_sample(j))

\* variant: 2 ms between records
packet_time_usec_mut(seq) == seq * 2000

packet_time_usec(seq) == seq * 20000

\* variant: the elapsed microseconds divided by 1000 instead of 1000000
timestamp_sec_mut(base, seq) == base + (packet_time_usec(seq) \div 1000)

timestamp_sec(base, seq) == base + (packet_time_usec(seq) \div 1000000)

timestamp_usec(seq) == packet_time_usec(seq) % 1000000

\* variant: the media timestamp seeded from the wall clock
initial_rtp_timestamp_mut(base) == base % 1000

\* rtp_timestamp = 0, whatever the wall clock says
initial_rtp_timestamp(base) == 0

\* variant: the media timestamp advanced by the milliseconds, not the samples
next_rtp_timestamp_mut(ts) == ts + 20

\* rtp_timestamp += 160
next_rtp_timestamp(ts) == ts + 160

\* the record of iteration seq
build_record(seq, rtp_ts, base) ==
    create_pcap_record(build_packet(seq, rtp_ts),
                       timestamp_sec(base, seq), timestamp_usec(seq))

\* what a failing f.write may leave behind: nothing, or part of the data
PartialLens(data) == {0, Len(data) \div 2}

Init ==
    /\ pc = "start"
    /\ fileOpen = FALSE
    /\ file = <<>>
    /\ writes = <<>>
    /\ base_timestamp = -1
    /\ rtp_timestamp = -1
    /\ seq_num = -1
    /\ exc = FALSE
    /\ out = <<>>
    /\ openCount = 0
    /\ closeCount = 0
    /\ closedWrite = FALSE
    /\ verifyResult = "none"
    /\ runs = 1
    /\ prevFile = <<>>

\* print(...) at line 94, then open('pcap/g711a.pcap', 'wb') succeeds and truncates
Open ==
    /\ pc = "start"
    /\ out' = Append(out, "creating")
    /\ fileOpen' = TRUE
    /\ openCount' = openCount + 1
    /\ file' = <<>>
    /\ writes' = <<>>
    /\ pc' = "header"
    /\ UNCHANGED <<base_timestamp, rtp_timestamp, seq_num, exc, closeCount,
                   closedWrite, verifyResult, runs, prevFile>>

\* open(...) raises: nothing was acquired and the exception leaves main()
OpenFail ==
    /\ pc = "start"
    /\ out' = Append(out, "creating")
    /\ exc' = TRUE
    /\ pc' = "raised"
    /\ UNCHANGED <<fileOpen, file, writes, base_timestamp, rtp_timestamp, seq_num,
                   openCount, closeCount, closedWrite, verifyResult, runs, prevFile>>

\* f.write(create_pcap_header()); base_timestamp = int(time.time()); rtp_timestamp = 0
WriteHeader ==
    /\ pc = "header"
    /\ file' = file \o create_pcap_header
    /\ writes' = Append(writes, Len(create_pcap_header))
    /\ closedWrite' = (closedWrite \/ ~fileOpen)
    /\ \E t \in BaseTimes :
          /\ base_timestamp' = t
          /\ rtp_timestamp' = initial_rtp_timestamp(t)
    /\ seq_num' = 0
    /\ pc' = "loop"
    /\ UNCHANGED <<fileOpen, exc, out, openCount, closeCount, verifyResult,
                   runs, prevFile>>

\* the write of the capture header raises
WriteHeaderFail ==
    /\ pc = "header"
    /\ \E n \in PartialLens(create_pcap_header) :
          file' = file \o SubSeq(create_pcap_header, 1, n)
    /\ closedWrite' = (closedWrite \/ ~fileOpen)
    /\ exc' = TRUE
    /\ pc' = "exit_with"
    /\ UNCHANGED <<fileOpen, writes, base_timestamp, rtp_timestamp, seq_num, out,
                   openCount, closeCount, verifyResult, runs, prevFile>>

\* one iteration of the loop, lines 104-127, whose write succeeds
WriteRecord ==
    /\ pc = "loop"
    /\ seq_num < NumPackets
    /\ IF pack_ok(seq_num, rtp_timestamp, base_timestamp)
       THEN LET record == build_record(seq_num, rtp_timestamp, base_timestamp)
            IN  /\ file' = file \o record
                /\ writes' = Append(writes, Len(record))
                /\ closedWrite' = (closedWrite \/ ~fileOpen)
                /\ rtp_timestamp' = next_rtp_timestamp(rtp_timestamp)
                /\ seq_num' = seq_num + 1
                /\ UNCHANGED <<pc, exc>>
       ELSE /\ exc' = TRUE
            /\ pc' = "exit_with"
            /\ UNCHANGED <<file, writes, closedWrite, rtp_timestamp, seq_num>>
    /\ UNCHANGED <<fileOpen, base_timestamp, out, openCount, closeCount,
                   verifyResult, runs, prevFile>>

\* one iteration of the loop whose write raises
WriteRecordFail ==
    /\ pc = "loop"
    /\ seq_num < NumPackets
    /\ pack_ok(seq_num, rtp_timestamp, base_timestamp) = TRUE
    /\ LET record == build_record(seq_num, rtp_timestamp, base_timestamp)
       IN  \E n \in PartialLens(record) : file' = file \o SubSeq(record, 1, n)
    /\ closedWrite' = (closedWrite \/ ~fileOpen)
    /\ exc' = TRUE
    /\ pc' = "exit_with"
    /\ UNCHANGED <<fileOpen, writes, base_timestamp, rtp_timestamp, seq_num, out,
                   openCount, closeCount, verifyResult, runs, prevFile>>

\* range(50) is exhausted: control leaves the with block
LoopEnd ==
    /\ pc = "loop"
    /\ seq_num >= NumPackets
    /\ pc' = "exit_with"
    /\ UNCHANGED <<fileOpen, file, writes, base_timestamp, rtp_timestamp, seq_num,
                   exc, out, openCount, closeCount, closedWrite, verifyResult,
                   runs, prevFile>>

\* where control goes once the with block has closed the file
after_close(raising) == IF raising THEN "raised" ELSE "created"

\* variant: the file is closed on the normal path only (no with statement)
Close_mut ==
    /\ pc = "exit_with"
    /\ fileOpen' = IF exc THEN fileOpen ELSE FALSE
    /\ closeCount' = IF exc THEN closeCount ELSE closeCount + 1
    /\ pc' = after_close(exc)
    /\ UNCHANGED <<file, writes, base_timestamp, rtp_timestamp, seq_num, exc, out,
                   openCount, closedWrite, verifyResult, runs, prevFile>>

\* the with statement's exit closes the file, on the normal and the raising path
Close ==
    /\ pc = "exit_with"
    /\ fileOpen' = FALSE
    /\ closeCount' = closeCount + 1
    /\ pc' = after_close(exc)
    /\ UNCHANGED <<file, writes, base_timestamp, rtp_timestamp, seq_num, exc, out,
                   openCount, closedWrite, verifyResult, runs, prevFile>>

\* the flush inside close() raises: the file is closed all the same, the
\* buffered data reached the disk or did not, and the exception leaves main()
CloseFail ==
    /\ pc = "exit_with"
    /\ fileOpen' = FALSE
    /\ closeCount' = closeCount + 1
    /\ exc' = TRUE
    /\ \/ UNCHANGED <<file, writes>>
       \/ file' = <<>> /\ writes' = <<>>
    /\ pc' = "raised"
    /\ UNCHANGED <<base_timestamp, rtp_timestamp, seq_num, out, openCount,
                   closedWrite, verifyResult, runs, prevFile>>

\* print(...) at line 129
PrintCreated ==
    /\ pc = "created"
    /\ out' = Append(out, "created")
    /\ pc' = "verify"
    /\ UNCHANGED <<fileOpen, file, writes, base_timestamp, rtp_timestamp, seq_num,
                   exc, openCount, closeCount, closedWrite, verifyResult,
                   runs, prevFile>>

\* the outcomes of subprocess.run(['tcpdump', '-r', ...])
VerifyOutcomes == {"rc_zero", "rc_nonzero", "exception"}

verify_message(outcome) ==
    CASE outcome = "rc_zero" -> <<"verification", "stdout">>
      [] outcome = "rc_nonzero" -> <<"could_not_verify">>
      [] outcome = "exception" -> <<"not_available">>

\* variant: an exception of the external reader is not caught
Verify_mut ==
    /\ pc = "verify"
    /\ \E outcome \in VerifyOutcomes :
          /\ verifyResult' = outcome
          /\ out' = out \o verify_message(outcome)
          /\ exc' = (outcome = "exception")
          /\ pc' = IF outcome = "exception" THEN "raised" ELSE "done"
    /\ UNCHANGED <<fileOpen, file, writes, base_timestamp, rtp_timestamp, seq_num,
                   openCount, closeCount, closedWrite, runs, prevFile>>

\* lines 131-142: the try block around the external reader
Verify ==
    /\ pc = "verify"
    /\ \E outcome \in VerifyOutcomes :
          /\ verifyResult' = outcome
          /\ out' = out \o verify_message(outcome)
    /\ pc' = "done"
    /\ UNCHANGED <<fileOpen, file, writes, base_timestamp, rtp_timestamp, seq_num,
                   exc, openCount, closeCount, closedWrite, runs, prevFile>>

\* the script is run again after a run that ended normally
Rerun ==
    /\ pc = "done"
    /\ runs < MaxRuns
    /\ runs' = runs + 1
    /\ prevFile' = file
    /\ pc' = "start"
    /\ base_timestamp' = -1
    /\ rtp_timestamp' = -1
    /\ seq_num' = -1
    /\ exc' = FALSE
    /\ out' = <<>>
    /\ openCount' = 0
    /\ closeCount' = 0
    /\ closedWrite' = FALSE
    /\ verifyResult' = "none"
    /\ writes' = <<>>
    /\ UNCHANGED <<fileOpen, file>>

Next ==
    \/ Open
    \/ OpenFail
    \/ WriteHeader
    \/ WriteHeaderFail
    \/ WriteRecord
    \/ WriteRecordFail
    \/ LoopEnd
    \/ Close
    \/ CloseFail
    \/ PrintCreated
    \/ Verify
    \/ Rerun

Spec == Init /\ [][Next]_vars

TypeOK ==
    /\ pc \in {"start", "header", "loop", "exit_with", "created", "verify",
               "done", "raised"}
    /\ fileOpen \in BOOLEAN
    /\ \A i \in 1..Len(file) : file[i] \in 0..255
    /\ seq_num \in -1..NumPackets
    /\ runs \in 1..MaxRuns

(* ------------------------ reading the file back ------------------------ *)

\* sizes of the layers of a record, as a reader of the capture assumes them
RecHdrLen == 16
EthLen == 14
IpLen == 20
UdpLen == 8
RtpLen == 12

RECURSIVE SumWrites(_)
\* number of bytes the first n successful writes put into the file
SumWrites(n) == IF n = 0 THEN 0 ELSE SumWrites(n - 1) + writes[n]

\* records completely written so far (the first write is the capture header)
NumRecs == IF Len(writes) = 0 THEN 0 ELSE Len(writes) - 1

Recs == 0..(NumRecs - 1)

\* offset in the file of record k, k = 0 for the first record
RecOff(k) == SumWrites(k + 1)

\* true number of bytes that follow the record header of record k
FrameLen(k) == writes[k + 2] - RecHdrLen

\* true number of payload bytes in the frame of record k
PayloadLen(k) == FrameLen(k) - EthLen - IpLen - UdpLen - RtpLen

U16BE(off) == 256 * file[off + 1] + file[off + 2]

U32BE(off) ==
    16777216 * file[off + 1] + 65536 * file[off + 2] + 256 * file[off + 3] + file[off + 4]

U32LE(off) ==
    file[off + 1] + 256 * file[off + 2] + 65536 * file[off + 3] + 16777216 * file[off + 4]

RecTsSec(k) == U32LE(RecOff(k))
RecTsUsec(k) == U32LE(RecOff(k) + 4)
RecCapLen(k) == U32LE(RecOff(k) + 8)
RecOrigLen(k) == U32LE(RecOff(k) + 12)
FrameOff(k) == RecOff(k) + RecHdrLen
IpTotalLen(k) == U16BE(FrameOff(k) + EthLen + 2)
UdpLenField(k) == U16BE(FrameOff(k) + EthLen + IpLen + 4)
RtpSeq(k) == U16BE(FrameOff(k) + EthLen + IpLen + UdpLen + 2)
RtpTs(k) == U32BE(FrameOff(k) + EthLen + IpLen + UdpLen + 4)

\* the generation part of main() ended without an exception
Generated == pc \in {"created", "verify", "done"}

(* ------------------------------ claims --------------------------------- *)

\* C1: in every record written, the IPv4 total length is 20 + 8 + 12 + the
\* length of the payload in that frame and the UDP length is 8 + 12 + that
\* length, so each is the number of bytes from its header to the end of the
\* frame: 200 and 180 with the 160 byte payload.
C1_DeclaredLengths ==
    \A k \in Recs :
        /\ IpTotalLen(k) = 20 + 8 + 12 + PayloadLen(k)
        /\ UdpLenField(k) = 8 + 12 + PayloadLen(k)
        /\ IpTotalLen(k) = FrameLen(k) - EthLen
        /\ UdpLenField(k) = FrameLen(k) - EthLen - IpLen
        /\ IpTotalLen(k) = 200
        /\ UdpLenField(k) = 180

C1_Witness == NumRecs = 50 /\ IpTotalLen(49) = 200 /\ UdpLenField(49) = 180

\* C2: in every record written, captured length = original length = the
\* number of bytes that follow the record header = 14 + 20 + 8 + 12 + payload.
C2_RecordLengths ==
    \A k \in Recs :
        /\ RecCapLen(k) = RecOrigLen(k)
        /\ RecCapLen(k) = FrameLen(k)
        /\ FrameLen(k) = 14 + 20 + 8 + 12 + Len(generate_g711a_audio(PacketMs))

C2_Witness == pc = "loop" /\ NumRecs >= 1 /\ RecCapLen(0) = 214

\* C3: the k-th record of the file carries sequence number 1000 + k, for
\* k = 0..49: increasing by one from 1000, nothing skipped or repeated.
C3_SequenceNumbers ==
    /\ NumRecs <= 50
    /\ \A k \in Recs : RtpSeq(k) = 1000 + k
    /\ \A k \in Recs : k > 0 => RtpSeq(k) = RtpSeq(k - 1) + 1
    /\ Generated => NumRecs = 50

C3_Witness == NumRecs = 50 /\ RtpSeq(0) = 1000 /\ RtpSeq(49) = 1049

\* C4: the media timestamp of every record is 160 * (its sequence number -
\* 1000): 0 in the first record and 160 more in each later one; inside the
\* loop the running timestamp is 160 * the number of records written.
C4_MediaTimestamps ==
    /\ \A k \in Recs : RtpTs(k) = 160 * (RtpSeq(k) - 1000)
    /\ \A k \in Recs : RtpTs(k) = IF k = 0 THEN 0 ELSE RtpTs(k - 1) + 160
    /\ pc = "loop" => rtp_timestamp = 160 * seq_num

C4_Witness == NumRecs >= 2 /\ RtpTs(0) = 0 /\ RtpTs(1) = 160

\* microseconds from the record-header time of record j to that of record k
SpanUsec(j, k) ==
    (RecTsSec(k) - RecTsSec(j)) * 1000000 + RecTsUsec(k) - RecTsUsec(j)

\* C5 as stated: the record-header timestamps of the first and the last
\* record of a complete capture are 50 * 20 ms = 1000 ms apart.
C5_Original == NumRecs = 50 => SpanUsec(0, 49) = 50 * 20000

\* C5 as amended: the record-header timestamps of the first and the last
\* record of a complete capture are 49 * 20 ms = 980 ms apart; the 1000 ms
\* are reached only with the 20 ms of audio the last record carries.
C5_SpanFirstToLast ==
    NumRecs = 50 => /\ SpanUsec(0, 49) = 49 * 20000
                    /\ SpanUsec(0, 49) + 20000 = 1000000

C5_Witness == pc = "done" /\ NumRecs = 50 /\ SpanUsec(0, 49) = 980000

\* the 24 bytes of the capture header, as a reader expects them
ExpectedCaptureHeader ==
    <<212, 195, 178, 161, 2, 0, 4, 0, 0, 0, 0, 0, 0, 0, 0, 0, 255, 255, 0, 0, 1, 0, 0, 0>>

\* C6: once generation has finished without a failure the file is the 24
\* byte capture header, written once and first, followed by exactly 50
\* records of 16 + 214 bytes; before that, the header precedes every record
\* and there are never more than 50 records.
C6_FileLayout ==
    /\ Len(writes) >= 1 =>
          /\ writes[1] = 24
          /\ SubSeq(file, 1, 24) = ExpectedCaptureHeader
    /\ NumRecs <= 50
    /\ \A k \in Recs : writes[k + 2] = 16 + 214 /\ RecCapLen(k) = 214
    /\ Generated =>
          /\ Len(writes) = 51
          /\ Len(file) = 24 + 50 * (16 + 214)

C6_Witness == pc = "done" /\ Len(file) = 11524 /\ writes[51] = 230

\* C7: the file is opened once and closed exactly once on every path out of
\* the with block, after a complete loop as after a failed write; nothing is
\* written to a closed file; the verification is attempted only with the
\* file closed after a complete generation without exception.
C7_FileReleased ==
    /\ openCount <= 1
    /\ closeCount <= openCount
    /\ fileOpen <=> (openCount = 1 /\ closeCount = 0)
    /\ Generated => (openCount = 1 /\ closeCount = 1 /\ ~fileOpen)
    /\ (pc = "raised" /\ openCount = 1) => (closeCount = 1 /\ ~fileOpen)
    /\ ~closedWrite
    /\ pc \in {"header", "loop"} => fileOpen
    /\ (pc = "verify" \/ verifyResult # "none") =>
          (closeCount = 1 /\ ~fileOpen /\ ~exc /\ NumRecs = 50)

C7_Witness == pc = "raised" /\ closeCount = 1 /\ NumRecs \in 1..49 /\ exc

\* C8: whatever the outcome of the external reader (exit 0, exit non-zero,
\* an exception such as the tool missing), the verification step ends main()
\* normally with only a message printed and leaves the capture file as it was.
C8_VerifyNeverFatal ==
    [][pc = "verify" =>
          /\ pc' = "done"
          /\ ~exc'
          /\ file' = file
          /\ verifyResult' \in VerifyOutcomes
          /\ Len(out') > Len(out)
          /\ SubSeq(out', 1, Len(out)) = out
          /\ out'[Len(out')] \in {"stdout", "could_not_verify", "not_available"}]_vars

C8_Witness == pc = "done" /\ verifyResult = "exception" /\ ~exc /\ NumRecs = 50

\* position i (from 1) of a complete capture lies in the seconds or the
\* microseconds field of a record header
InRecordTimestamp(i) == i > 24 /\ ((i - 25) % (16 + 214)) < 8

\* C9: the files of two complete runs that differ only in the wall-clock
\* reading have the same length and agree in every byte outside the two
\* timestamp fields of the record headers.
C9_Idempotent ==
    (runs >= 2 /\ Generated) =>
        /\ Len(file) = Len(prevFile)
        /\ \A i \in 1..Len(file) : file[i] # prevFile[i] => InRecordTimestamp(i)

C9_Witness ==
    runs = 2 /\ pc = "done" /\ Len(file) = Len(prevFile) /\ file # prevFile

\* C10: in record k the microseconds field is within 0..999999 and seconds
\* and microseconds together are the base time + k * 20000 us, so that
\* consecutive records are 20 ms apart and the times strictly increase.
C10_RecordTimes ==
    \A k \in Recs :
        /\ RecTsUsec(k) \in 0..999999
        /\ (RecTsSec(k) - base_timestamp) * 1000000 + RecTsUsec(k) = k * 20000
        /\ k > 0 => SpanUsec(k - 1, k) = 20000

C10_Witness ==
    NumRecs = 50 /\ RecTsSec(49) = base_timestamp /\ RecTsUsec(49) = 980000

====
